---------------------------- MODULE Spec2Model ----------------------------
(***************************************************************************)
(* The bundle sender loop of the builder (src/builder/bundle_sender.rs):   *)
(* the outer loop send_bundles_in_loop, the passive tracker poll           *)
(* check_for_and_log_transaction_update, the fee escalation sequence       *)
(* send_bundle_with_increasing_gas_fees(_inner) and get_bundle_tx.         *)
(*                                                                         *)
(* The loop is one cooperative task.  Every action below is the code that  *)
(* runs from one await to the next.  The proposer, the transaction         *)
(* tracker, the operation pool, the block watcher and the manual-mode      *)
(* callers are the environment: what they return is drawn from small sets. *)
(* An Option<T> is a sequence of length at most one: <<>> is None and      *)
(* <<v>> is Some(v).                                                        *)
(***************************************************************************)
EXTENDS Integers, Sequences, FiniteSets, TLC

(***************************************************************************)
(* Bounds of the model.                                                    *)
(***************************************************************************)
\* settings.max_fee_increases is drawn from 0..MaxFeeIncreases
MaxFeeIncreases == 1
\* block numbers observed by the block watcher are 1..MaxBlock
MaxBlock == 2
\* manual-mode callers send at most MaxRequests SendBundleRequests
MaxRequests == 1

(***************************************************************************)
(* Program constants.                                                      *)
(***************************************************************************)
GAS_ESTIMATE_OVERHEAD_PERCENT == 10

\* The fields id, chain_id and beneficiary of BundleSender, and the address
\* of its entry point: fixed at construction.
BuilderId == 7
ChainId == 1337
Beneficiary == "0xbe"
EntryPointAddress == "0xep"

(***************************************************************************)
(* Value domains of the environment.                                       *)
(***************************************************************************)
None == <<>>
Some(v) == <<v>>
IsSome(o) == Len(o) = 1
Unwrap(o) == o[1]

GasFees(max_fee, prio_fee) ==
    [max_fee_per_gas |-> max_fee, max_priority_fee_per_gas |-> prio_fee]

\* settings.replacement_fee_percent_increase is drawn from Percents
Percents == {10}
\* A U256 is its low 64-bit word and the words above it.
U256(low, high) == [low |-> low, high |-> high]
\* nonces the tracker hands out and reports
Nonces == {U256(5, 0), U256(6, 1)}
\* transaction hashes the tracker reports as mined
TxHashes == {"h1", "h2"}
\* transaction hashes send_transaction returns
SentTxHashes == {"h1"}
\* the fees the proposer picks when no floor is requested
BaseFees == GasFees(10, 1)
\* the floor the tracker requires when a transaction is already pending
TrackerFloor == GasFees(12, 2)
\* The bundles the proposer builds: ops_per_aggregator (groups of ops; an op
\* is a number), the gas estimate, what was rejected, and by how much the
\* bundle's gas_fees exceed the floor the proposer was asked for.
\* Two are empty, one of them with rejections.
Candidate(ops, gas_estimate, rejected_ops, rejected_entities, fee_excess) ==
    [ops_per_aggregator |-> ops, gas_estimate |-> gas_estimate,
     rejected_ops |-> rejected_ops, rejected_entities |-> rejected_entities,
     fee_excess |-> fee_excess]
PaymasterA == [kind |-> "paymaster", address |-> "0xa"]
Candidates ==
    { Candidate(<<>>, 0, <<>>, <<>>, 0),
      Candidate(<<>>, 0, <<4, 3>>, <<PaymasterA>>, 0),
      Candidate(<< <<1>> >>, 100000, <<>>, <<>>, 0),
      Candidate(<< <<3>>, <<1, 2>> >>, 101, <<4, 3>>, <<PaymasterA>>, 3) }

(***************************************************************************)
(* Pure helpers.                                                           *)
(***************************************************************************)
\* math::increase_by_percent: n raised by percent, rounded up
increase_by_percent(n, percent) == (n * (100 + percent) + 99) \div 100

\* GasFees::increase_by_percent: both fields raised
GasFees_increase_by_percent(fees, percent) ==
    GasFees(increase_by_percent(fees.max_fee_per_gas, percent),
            increase_by_percent(fees.max_priority_fee_per_gas, percent))

\* U256::low_u64: the low word
low_u64(n) == n.low

\* UserOperation::op_hash(entry_point, chain_id): a deterministic function of
\* the three
UserOperation_op_hash(op, entry_point, chain_id) ==
    [op |-> op, entry_point |-> entry_point, chain_id |-> chain_id]

\* BundleSender::op_hash
op_hash(op) == UserOperation_op_hash(op, EntryPointAddress, ChainId)

\* A collection of the hashes in the reverse order of the ops.
op_hashes_reversed(ops) == [i \in 1..Len(ops) |-> op_hash(ops[Len(ops) + 1 - i])]

\* ops.iter().map(|op| self.op_hash(op)).collect()
op_hashes_of(ops) == [i \in 1..Len(ops) |-> op_hash(ops[i])]

RECURSIVE Flatten(_)
Flatten(groups) ==
    IF groups = <<>> THEN <<>> ELSE Head(groups) \o Flatten(Tail(groups))

\* Bundle::iter_ops, Bundle::len, Bundle::is_empty
Bundle_iter_ops(b) == Flatten(b.ops_per_aggregator)
Bundle_len(b) == Len(Bundle_iter_ops(b))
Bundle_is_empty(b) == Bundle_len(b) = 0

\* op_pool::Entity::from(&Entity)
PoolEntity(e) == [kind |-> <<"op_pool", e.kind>>, address |-> e.address]

\* entities.iter().map(op_pool::Entity::from).collect()
pool_entities_of(entities) ==
    [i \in 1..Len(entities) |-> PoolEntity(entities[i])]

\* The requests of remove_ops_from_pool and remove_entities_from_pool
RemoveOpsRequest(ops) ==
    [entry_point |-> EntryPointAddress, hashes |-> op_hashes_of(ops)]
RemoveEntitiesRequest(entities) ==
    [entry_point |-> EntryPointAddress, entities |-> pool_entities_of(entities)]

\* EntryPointLike::get_send_bundle_transaction followed by tx.set_nonce
get_send_bundle_transaction(ops_per_aggregator, beneficiary, gas, gas_fees) ==
    [to |-> EntryPointAddress,
     data |-> [ops_per_aggregator |-> ops_per_aggregator,
               beneficiary |-> beneficiary],
     gas |-> gas,
     max_fee_per_gas |-> gas_fees.max_fee_per_gas,
     max_priority_fee_per_gas |-> gas_fees.max_priority_fee_per_gas,
     nonce |-> None]
set_nonce(tx, n) == [tx EXCEPT !.nonce = Some(n)]

\* GasFees::from(&tx)
GasFees_from(tx) == GasFees(tx.max_fee_per_gas, tx.max_priority_fee_per_gas)

(***************************************************************************)
(* BuilderEvent, wrapped by emit in WithEntryPoint.                        *)
(***************************************************************************)
formed_bundle(id, tx_details, n, count, fees) ==
    [kind |-> "formed_bundle", builder_id |-> id, tx_details |-> tx_details,
     nonce |-> n, fee_increase_count |-> count, required_fees |-> fees]
transaction_mined(id, tx_hash, n, block_number) ==
    [kind |-> "transaction_mined", builder_id |-> id, tx_hash |-> tx_hash,
     nonce |-> n, block_number |-> block_number]
latest_transaction_dropped(id, n) ==
    [kind |-> "latest_transaction_dropped", builder_id |-> id, nonce |-> n]
nonce_used_for_other_transaction(id, n) ==
    [kind |-> "nonce_used_for_other_transaction", builder_id |-> id,
     nonce |-> n]
WithEntryPoint(event) == [entry_point |-> EntryPointAddress, event |-> event]

(***************************************************************************)
(* SendBundleResult and TrackerUpdate.                                     *)
(***************************************************************************)
Success(block_number, attempt_number, tx_hash) ==
    [kind |-> "Success", block_number |-> block_number,
     attempt_number |-> attempt_number, tx_hash |-> tx_hash]
NoOperationsInitially == [kind |-> "NoOperationsInitially"]
NoOperationsAfterFeeIncreases(count, attempt_number) ==
    [kind |-> "NoOperationsAfterFeeIncreases", initial_op_count |-> count,
     attempt_number |-> attempt_number]
StalledAtMaxFeeIncreases == [kind |-> "StalledAtMaxFeeIncreases"]
Error(error) == [kind |-> "Error", error |-> error]

\* TrackerUpdate::Mined also carries gas_fees, which the sender never reads
Mined(tx_hash, n, block_number, attempt_number) ==
    [kind |-> "Mined", tx_hash |-> tx_hash, nonce |-> n,
     block_number |-> block_number, attempt_number |-> attempt_number]
StillPendingAfterWait == [kind |-> "StillPendingAfterWait"]
LatestTxDropped(n) == [kind |-> "LatestTxDropped", nonce |-> n]
NonceUsedForOtherTx(n) == [kind |-> "NonceUsedForOtherTx", nonce |-> n]

(***************************************************************************)
(* The state.                                                              *)
(***************************************************************************)
VARIABLES
    settings,               \* Settings: fixed at construction
    estimation,             \* the estimation Settings and the answers of
                            \* the calls of Settings::validate made on them
    requests_sent,          \* SendBundleRequests sent by callers so far
    send_bundle_receiver,   \* the mpsc channel: ids of the queued requests
    reply_count,            \* request id -> results sent to its responder
    discarded,              \* requests whose result could not be delivered
    delivered,              \* Option: the reply sent by the iteration that
                            \* just ended
    pc,                     \* the await the loop is suspended at
    last_block_number,
    send_bundle_response,   \* Option: the responder taken in this iteration
    nonce,
    required_fees,          \* Option<GasFees>
    initial_op_count,       \* Option<usize>
    fee_increase_count,
    bundle,                 \* Option: the proposer's bundle of this attempt
    remove_ops,             \* the remove_ops future of this attempt
    remove_entities,        \* the remove_entities future of this attempt
    bundle_tx,              \* Option<BundleTx>
    current_fees,           \* Option<GasFees>
    update,                 \* Option: the TrackerUpdate just classified
    result,                 \* Option<SendBundleResult> of the sequence
    metrics,                \* BuilderMetrics counters
    events,                 \* the events the loop's latest step emitted
    submitted_fees,         \* fees of the transactions passed to
                            \* send_transaction in this sequence, in order
    in_flight,              \* submissions of this sequence that got a hash
                            \* and are not reported mined, dropped or
                            \* nonce-used
    awaited,                \* submissions whose update the loop waits for
    first_op_count,         \* Option: ops of the bundle built at attempt 0
    at_start,               \* the counters when the sequence started
    formed_hashes           \* the hashes of the formed_bundle events with
                            \* transaction details emitted so far

\* the manual-mode callers
caller_vars ==
    << requests_sent, send_bundle_receiver, reply_count, discarded, delivered >>
\* the locals of send_bundle_with_increasing_gas_fees_inner
seq_locals ==
    << nonce, required_fees, initial_op_count, fee_increase_count >>
\* the locals of one attempt
attempt_locals ==
    << bundle, remove_ops, remove_entities, bundle_tx, current_fees >>
\* what is recorded about the sequence
seq_record ==
    << submitted_fees, in_flight, awaited, first_op_count, at_start >>

vars ==
    << settings, caller_vars, pc, last_block_number, send_bundle_response,
       seq_locals, attempt_locals, update, result, metrics, events,
       seq_record, formed_hashes, estimation >>

(***************************************************************************)
(* Gas estimation settings (crates/sim/src/estimation/mod.rs).             *)
(***************************************************************************)
\* calls of Settings::validate made in one run of the validation model
MaxValidations == 2

\* U256::from(u64): the value in the low word
U256_from(n) == U256(n, 0)

\* U256::cmp(..).is_lt(): most significant word first
U256_lt(a, b) == a.high < b.high \/ (a.high = b.high /\ a.low < b.low)

\* crate::precheck::MIN_CALL_GAS_LIMIT
MIN_CALL_GAS_LIMIT == U256(9100, 0)

\* values of max_call_gas below, at and above the limit
CallGasValues == {0, 9099, 9100, 9101, 20000}
\* values of the three other fields, on both sides of the limit
OtherGasValues == {0, 10000}

EstimationSettings ==
    [max_verification_gas : OtherGasValues,
     max_call_gas : CallGasValues,
     max_simulate_handle_ops_gas : OtherGasValues,
     validation_estimation_gas_fee : OtherGasValues]

DefaultEstimationSettings ==
    [max_verification_gas |-> 10000, max_call_gas |-> 20000,
     max_simulate_handle_ops_gas |-> 10000,
     validation_estimation_gas_fee |-> 10000]

\* A validation that also refuses the limit itself.
Settings_validate_inclusive(self) ==
    IF U256_from(self.max_call_gas) = MIN_CALL_GAS_LIMIT
       \/ U256_lt(U256_from(self.max_call_gas), MIN_CALL_GAS_LIMIT)
    THEN Some("max_call_gas field cannot be lower than MIN_CALL_GAS_LIMIT")
    ELSE None

\* Settings::validate(&self) -> Option<String>
Settings_validate(self) ==
    IF U256_lt(U256_from(self.max_call_gas), MIN_CALL_GAS_LIMIT)
    THEN Some("max_call_gas field cannot be lower than MIN_CALL_GAS_LIMIT")
    ELSE None

ZeroMetrics ==
    [bundle_txns_sent |-> 0, bundle_txns_success |-> 0,
     bundle_txns_dropped |-> 0, bundle_txns_abandoned |-> 0,
     bundle_txns_failed |-> 0, bundle_txns_nonce_used |-> 0,
     bundle_fee_increases |-> 0]

Inc(m, counter) == [m EXCEPT ![counter] = @ + 1]

IdleFuture == [state |-> "idle", request |-> None]

\* BundleSender::new followed by the entry into send_bundles_in_loop, with
\* max_fee_increases drawn from increases and the loop having last observed
\* block number block
Start(increases, block) ==
    /\ settings \in [replacement_fee_percent_increase : Percents,
                     max_fee_increases : increases]
    /\ requests_sent = 0
    /\ send_bundle_receiver = <<>>
    /\ reply_count = [r \in 1..MaxRequests |-> 0]
    /\ discarded = {}
    /\ delivered = None
    /\ pc = "loop_top"
    /\ last_block_number = block
    /\ send_bundle_response = None
    /\ nonce = U256(0, 0)
    /\ required_fees = None
    /\ initial_op_count = None
    /\ fee_increase_count = 0
    /\ bundle = None
    /\ remove_ops = IdleFuture
    /\ remove_entities = IdleFuture
    /\ bundle_tx = None
    /\ current_fees = None
    /\ update = None
    /\ result = None
    /\ metrics = ZeroMetrics
    /\ events = <<>>
    /\ submitted_fees = <<>>
    /\ in_flight = 0
    /\ awaited = 0
    /\ first_op_count = None
    /\ at_start = ZeroMetrics
    /\ formed_hashes = {}

\* let mut last_block_number = 0;
Init ==
    /\ Start(0..MaxFeeIncreases, 0)
    /\ estimation = [settings |-> DefaultEstimationSettings, answers |-> <<>>]

\* The loop one block before the last block of the model, every iteration
\* so far having found no operations (no counter has moved), with one fee
\* increase more than Init allows: a single, longer escalation sequence.
InitEscalation ==
    /\ Start({MaxFeeIncreases + 1}, MaxBlock - 1)
    /\ estimation = [settings |-> DefaultEstimationSettings, answers |-> <<>>]

(***************************************************************************)
(* The manual-mode callers.  The loop reads the channel only in its        *)
(* select!, so a request is sent while the loop waits there.               *)
(***************************************************************************)
CallerSendsRequest ==
    /\ pc = "select"
    /\ requests_sent < MaxRequests
    /\ requests_sent' = requests_sent + 1
    /\ send_bundle_receiver' = Append(send_bundle_receiver, requests_sent + 1)
    /\ UNCHANGED << settings, estimation, formed_hashes, reply_count, discarded, delivered, pc,
                    last_block_number, send_bundle_response, seq_locals,
                    attempt_locals, update, result, metrics, events,
                    seq_record >>

(***************************************************************************)
(* send_bundles_in_loop: the top of an iteration.                          *)
(***************************************************************************)
\* let mut send_bundle_response = None;
\* if self.manual_bundling_mode.load(Ordering::Relaxed) { select! ... }
\* The flag is set by an external controller: the load returns either value.
ReadMode ==
    /\ pc = "loop_top"
    /\ send_bundle_response' = None
    /\ \E manual_bundling_mode \in BOOLEAN :
           pc' = IF manual_bundling_mode THEN "select" ELSE "wait_block"
    \* the result of the previous iteration was moved into the reply or
    \* dropped
    /\ result' = None
    /\ delivered' = None
    /\ events' = <<>>
    /\ UNCHANGED << settings, estimation, formed_hashes, requests_sent, send_bundle_receiver,
                    reply_count, discarded, last_block_number, seq_locals,
                    attempt_locals, update, metrics, seq_record >>

\* A receive that leaves the request in the channel.
AfterRecv_peek(queue) == queue

\* mpsc::Receiver::recv takes the oldest message out of the channel
AfterRecv(queue) == Tail(queue)

\* Some(r) = self.send_bundle_receiver.recv()
SelectRecv ==
    /\ pc = "select"
    /\ send_bundle_receiver # <<>>
    /\ send_bundle_response' = Some(Head(send_bundle_receiver))
    /\ send_bundle_receiver' = AfterRecv(send_bundle_receiver)
    /\ pc' = "wait_block"
    /\ events' = <<>>
    /\ UNCHANGED << settings, estimation, formed_hashes, requests_sent, reply_count, discarded,
                    delivered, last_block_number, seq_locals, attempt_locals,
                    update, result, metrics, seq_record >>

\* A timeout that falls through to the block wait.
AfterTimeout_proceeding == "wait_block"

\* continue: the timeout starts the next iteration
AfterTimeout == "loop_top"

\* _ = time::sleep(self.eth_poll_interval) => continue
SelectTimeout ==
    /\ pc = "select"
    /\ pc' = AfterTimeout
    /\ events' = <<>>
    /\ UNCHANGED << settings, estimation, formed_hashes, caller_vars, last_block_number,
                    send_bundle_response, seq_locals, attempt_locals, update,
                    result, metrics, seq_record >>

\* block_watcher::wait_for_new_block_number: a block number strictly greater
\* than the last one observed
NewBlockNumbers(last) == (last + 1)..MaxBlock

WaitForNewBlock ==
    /\ pc = "wait_block"
    /\ \E b \in NewBlockNumbers(last_block_number) :
           last_block_number' = b
    /\ pc' = "poll"
    /\ events' = <<>>
    /\ UNCHANGED << settings, estimation, formed_hashes, caller_vars, send_bundle_response, seq_locals,
                    attempt_locals, update, result, metrics, seq_record >>

(***************************************************************************)
(* What the tracker returns.                                               *)
(***************************************************************************)
Ok(v) == [ok |-> TRUE, value |-> v]
Err(e) == [ok |-> FALSE, error |-> e]

MinedBlocks == {1000}

TrackerUpdates ==
    { Mined(h, n, b, a) : h \in TxHashes, n \in Nonces, b \in MinedBlocks,
                          a \in 0..settings.max_fee_increases }
    \cup { StillPendingAfterWait }
    \cup { LatestTxDropped(n) : n \in Nonces }
    \cup { NonceUsedForOtherTx(n) : n \in Nonces }

\* check_for_update_now
CheckResults ==
    { Err("tracker error"), Ok(None) } \cup { Ok(Some(u)) : u \in TrackerUpdates }

\* get_nonce_and_required_fees: a floor is required when a transaction of
\* the nonce is already pending
NonceAndFeesResults ==
    { Err("tracker error"),
      Ok([nonce |-> U256(5, 0), required_fees |-> None]),
      Ok([nonce |-> U256(6, 0), required_fees |-> Some(TrackerFloor)]) }

\* send_transaction
SendResults ==
    { Err("tracker error") }
    \cup { Ok([kind |-> "TrackerUpdate", update |-> u]) : u \in TrackerUpdates }
    \cup { Ok([kind |-> "TxHash", tx_hash |-> h]) : h \in SentTxHashes }

\* wait_for_update
WaitResults == { Err("tracker error") } \cup { Ok(u) : u \in TrackerUpdates }

\* A report of the tracker resolves submissions: a mined transaction or a
\* nonce used by another transaction consumes the nonce, a drop concerns the
\* latest transaction, a transaction still pending stays in flight.
Resolve(n, u) ==
    CASE u.kind \in {"Mined", "NonceUsedForOtherTx"} -> 0
      [] u.kind = "LatestTxDropped" -> IF n > 0 THEN n - 1 ELSE 0
      [] OTHER -> n

(***************************************************************************)
(* check_for_and_log_transaction_update: the passive tracker poll.         *)
(***************************************************************************)
PollEvents(u) ==
    CASE u.kind = "LatestTxDropped" ->
           << WithEntryPoint(latest_transaction_dropped(BuilderId, low_u64(u.nonce))) >>
      [] u.kind = "NonceUsedForOtherTx" ->
           << WithEntryPoint(nonce_used_for_other_transaction(BuilderId, low_u64(u.nonce))) >>
      [] OTHER -> <<>>

PollMetrics(m, u) ==
    CASE u.kind = "Mined" -> Inc(m, "bundle_txns_success")
      [] u.kind = "LatestTxDropped" -> Inc(m, "bundle_txns_dropped")
      [] u.kind = "NonceUsedForOtherTx" -> Inc(m, "bundle_txns_nonce_used")
      [] OTHER -> m

\* A poll whose error ends the iteration.
AfterPoll_giving_up(r) == IF r.ok THEN "get_nonce" ELSE "loop_top"

\* Err(error) => { error!(..); return; }: whatever check_for_update_now
\* returned, the loop goes on to the sequence
AfterPoll(r) == "get_nonce"

CheckForUpdate ==
    /\ pc = "poll"
    /\ \E r \in CheckResults :
           /\ IF r.ok /\ IsSome(r.value)
              THEN /\ events' = PollEvents(Unwrap(r.value))
                   /\ metrics' = PollMetrics(metrics, Unwrap(r.value))
              ELSE /\ events' = <<>>
                   /\ UNCHANGED metrics
           /\ pc' = AfterPoll(r)
    /\ UNCHANGED << settings, estimation, formed_hashes, caller_vars, last_block_number,
                    send_bundle_response, seq_locals, attempt_locals, update,
                    result, seq_record >>

(***************************************************************************)
(* send_bundle_with_increasing_gas_fees_inner.                             *)
(***************************************************************************)
\* A sequence that swallows an error and goes on to a further attempt.
ReturnError_swallowed(error) ==
    /\ result' = None
    /\ pc' = "make_bundle"

\* the sequence ends with an error: Err(error) => SendBundleResult::Error
ReturnError(error) ==
    /\ result' = Some(Error(error))
    /\ pc' = "seq_return"

\* let (nonce, mut required_fees) = get_nonce_and_required_fees()?;
\* let mut initial_op_count = None; for fee_increase_count in 0..=...
StartSequence ==
    /\ pc = "get_nonce"
    /\ at_start' = metrics
    /\ \E r \in NonceAndFeesResults :
           IF r.ok
           THEN /\ nonce' = r.value.nonce
                /\ required_fees' = r.value.required_fees
                /\ pc' = "make_bundle"
                /\ result' = None
           ELSE /\ ReturnError(r.error)
                /\ UNCHANGED << nonce, required_fees >>
    /\ initial_op_count' = None
    /\ fee_increase_count' = 0
    /\ events' = <<>>
    /\ UNCHANGED << settings, estimation, formed_hashes, caller_vars, last_block_number,
                    send_bundle_response, attempt_locals, update, metrics,
                    submitted_fees, in_flight, awaited, first_op_count >>

(***************************************************************************)
(* get_bundle_tx.                                                          *)
(***************************************************************************)
\* BundleProposer::make_bundle(required_fees): the bundle's fees respect the
\* floor; it may be empty
ProposerFees(floor, excess) ==
    LET base == IF IsSome(floor) THEN Unwrap(floor) ELSE BaseFees
    IN  GasFees(base.max_fee_per_gas + excess,
                base.max_priority_fee_per_gas + excess)

make_bundle_results(floor) ==
    { Err("proposer error") }
    \cup { Ok([ops_per_aggregator |-> c.ops_per_aggregator,
               gas_estimate |-> c.gas_estimate,
               gas_fees |-> ProposerFees(floor, c.fee_excess),
               expected_storage |-> [slots |-> Len(c.ops_per_aggregator)],
               rejected_ops |-> c.rejected_ops,
               rejected_entities |-> c.rejected_entities]) :
               c \in Candidates }

\* self.proposer.make_bundle(required_fees).await.context(..)?, then the two
\* removal futures are created and polled by join!
MakeBundleReturns ==
    /\ pc = "make_bundle"
    /\ \E r \in make_bundle_results(required_fees) :
           IF r.ok
           THEN /\ bundle' = Some(r.value)
                /\ remove_ops' =
                       [state |-> "pending",
                        request |-> Some(RemoveOpsRequest(r.value.rejected_ops))]
                /\ remove_entities' =
                       [state |-> "pending",
                        request |-> Some(RemoveEntitiesRequest(r.value.rejected_entities))]
                /\ first_op_count' =
                       IF fee_increase_count = 0
                       THEN Some(Bundle_len(r.value)) ELSE first_op_count
                /\ pc' = "join"
                /\ result' = None
           ELSE /\ ReturnError("proposer should create bundle for builder")
                /\ bundle' = None
                /\ remove_ops' = IdleFuture
                /\ remove_entities' = IdleFuture
                /\ UNCHANGED first_op_count
    /\ update' = None
    /\ events' = <<>>
    /\ UNCHANGED << settings, estimation, formed_hashes, caller_vars, last_block_number,
                    send_bundle_response, seq_locals, bundle_tx,
                    current_fees, metrics, submitted_fees, in_flight,
                    awaited, at_start >>

\* the pool answers remove_ops: Ok, or an error that is only logged
RemoveOpsReturns ==
    /\ pc = "join"
    /\ remove_ops.state = "pending"
    /\ \E ok \in BOOLEAN :
           remove_ops' = [remove_ops EXCEPT !.state = IF ok THEN "ok" ELSE "failed"]
    /\ events' = <<>>
    /\ UNCHANGED << settings, estimation, formed_hashes, caller_vars, pc, last_block_number,
                    send_bundle_response, seq_locals, bundle,
                    remove_entities, bundle_tx, current_fees, update, result,
                    metrics, seq_record >>

\* the pool answers remove_entities: Ok, or an error that is only logged
RemoveEntitiesReturns ==
    /\ pc = "join"
    /\ remove_entities.state = "pending"
    /\ \E ok \in BOOLEAN :
           remove_entities' =
               [remove_entities EXCEPT !.state = IF ok THEN "ok" ELSE "failed"]
    /\ events' = <<>>
    /\ UNCHANGED << settings, estimation, formed_hashes, caller_vars, pc, last_block_number,
                    send_bundle_response, seq_locals, bundle, remove_ops,
                    bundle_tx, current_fees, update, result, metrics,
                    seq_record >>

Completed(future) == future.state \in {"ok", "failed"}

\* A join that returns when the first of the two futures completes, as
\* select! would.
JoinComplete_either == Completed(remove_ops) \/ Completed(remove_entities)

\* join!(remove_ops_future, remove_entities_future) returns
JoinComplete == Completed(remove_ops) /\ Completed(remove_entities)

\* A gas limit that is the proposer's estimate without overhead.
bundle_gas_estimate(b) == b.gas_estimate

\* let gas = math::increase_by_percent(bundle.gas_estimate,
\*                                     GAS_ESTIMATE_OVERHEAD_PERCENT);
bundle_gas(b) ==
    increase_by_percent(b.gas_estimate, GAS_ESTIMATE_OVERHEAD_PERCENT)

\* the part of get_bundle_tx after join!: Ok(None) for an empty bundle, else
\* Ok(Some(BundleTx))
build_bundle_tx(b, n) ==
    IF Bundle_is_empty(b)
    THEN Ok(None)
    ELSE LET gas == bundle_gas(b)
             op_hashes == op_hashes_of(Bundle_iter_ops(b))
             tx == get_send_bundle_transaction(b.ops_per_aggregator,
                                               Beneficiary, gas, b.gas_fees)
         IN  Ok(Some([tx |-> set_nonce(tx, n),
                      expected_storage |-> b.expected_storage,
                      op_hashes |-> op_hashes]))

\* A get_bundle_tx that propagated the errors of the pool removals with `?`
\* instead of logging them.
get_bundle_tx_propagating(b, n) ==
    IF remove_ops.state = "failed" \/ remove_entities.state = "failed"
    THEN Err("builder should remove rejected ops from pool")
    ELSE build_bundle_tx(b, n)

\* what get_bundle_tx returns once join! has returned: the errors of the
\* removals were logged inside the futures and are not part of it
get_bundle_tx_result(b, n) == build_bundle_tx(b, n)

\* An empty-bundle result that counts every sequence without a bundle as
\* abandoned.
EmptyBundleResult_counting(initial, count) ==
    [result |-> IF IsSome(initial)
                THEN NoOperationsAfterFeeIncreases(Unwrap(initial), count)
                ELSE NoOperationsInitially,
     abandoned |-> TRUE]

\* the result of the sequence when no bundle was built, and whether it counts
\* as abandoned
EmptyBundleResult(initial, count) ==
    IF IsSome(initial)
    THEN [result |-> NoOperationsAfterFeeIncreases(Unwrap(initial), count),
          abandoned |-> TRUE]
    ELSE [result |-> NoOperationsInitially, abandoned |-> FALSE]

\* A record of the op count that every attempt overwrites.
RecordInitialOpCount_latest(initial, len) == Some(len)

\* if initial_op_count.is_none() { initial_op_count = Some(op_hashes.len()) }
RecordInitialOpCount(initial, len) ==
    IF initial = None THEN Some(len) ELSE initial

\* A sender that does not count the transaction it is about to send.
CountSent_skipped(m) == m

\* BuilderMetrics::increment_bundle_txns_sent(self.id)
CountSent(m) == Inc(m, "bundle_txns_sent")

\* A sequence that gives every attempt a nonce of its own.
AttemptNonce_advancing(n, count) == U256(n.low + count, n.high)

\* self.get_bundle_tx(nonce, required_fees): the nonce given to the attempt
\* numbered count is the one read before the first attempt
AttemptNonce(n, count) == n

\* get_bundle_tx goes on after join! and returns; the sequence either ends
\* (no bundle) or counts the transaction as sent and calls send_transaction
AfterJoin ==
    /\ pc = "join"
    /\ JoinComplete
    /\ LET r == get_bundle_tx_result(Unwrap(bundle),
                                     AttemptNonce(nonce, fee_increase_count)) IN
       IF ~r.ok
       THEN /\ ReturnError(r.error)
            /\ events' = <<>>
            /\ UNCHANGED << initial_op_count, bundle_tx, current_fees,
                            metrics, submitted_fees >>
       ELSE IF r.value = None
       THEN LET e == EmptyBundleResult(initial_op_count, fee_increase_count) IN
            /\ events' =
                   << WithEntryPoint(formed_bundle(BuilderId, None, low_u64(nonce),
                                                   fee_increase_count, required_fees)) >>
            /\ metrics' = IF e.abandoned
                          THEN Inc(metrics, "bundle_txns_abandoned") ELSE metrics
            /\ result' = Some(e.result)
            /\ pc' = "seq_return"
            /\ UNCHANGED << initial_op_count, bundle_tx, current_fees,
                            submitted_fees >>
       ELSE LET btx == Unwrap(r.value) IN
            /\ bundle_tx' = Some(btx)
            /\ initial_op_count' =
                   RecordInitialOpCount(initial_op_count, Len(btx.op_hashes))
            /\ current_fees' = Some(GasFees_from(btx.tx))
            /\ metrics' = CountSent(metrics)
            /\ submitted_fees' = Append(submitted_fees, GasFees_from(btx.tx))
            /\ pc' = "send"
            /\ events' = <<>>
            /\ UNCHANGED result
    \* the bundle and the removal futures are dropped when get_bundle_tx
    \* returns
    /\ bundle' = None
    /\ remove_ops' = IdleFuture
    /\ remove_entities' = IdleFuture
    /\ UNCHANGED << settings, estimation, formed_hashes, caller_vars, last_block_number,
                    send_bundle_response, nonce, required_fees,
                    fee_increase_count, update, in_flight, awaited,
                    first_op_count, at_start >>

(***************************************************************************)
(* The classification of a tracker update (match update { ... }).          *)
(***************************************************************************)
\* A classification that treats a nonce used by another transaction like a
\* dropped transaction.
UpdateOutcome_tolerant(u) ==
    IF u.kind = "Mined" THEN "success" ELSE "fall_through"

\* A classification that gives up on a dropped transaction.
UpdateOutcome_strict(u) ==
    CASE u.kind = "Mined" -> "success"
      [] u.kind \in {"NonceUsedForOtherTx", "LatestTxDropped"} -> "bail"
      [] OTHER -> "fall_through"

\* what the sequence does on an update: return Success, bail!, or fall
\* through to the fee increase
UpdateOutcome(u) ==
    CASE u.kind = "Mined" -> "success"
      [] u.kind = "NonceUsedForOtherTx" -> "bail"
      [] OTHER -> "fall_through"

UpdateEvents(u) ==
    CASE u.kind = "Mined" ->
           << WithEntryPoint(transaction_mined(BuilderId, u.tx_hash,
                                               low_u64(u.nonce), u.block_number)) >>
      [] u.kind = "LatestTxDropped" ->
           << WithEntryPoint(latest_transaction_dropped(BuilderId, low_u64(u.nonce))) >>
      [] u.kind = "NonceUsedForOtherTx" ->
           << WithEntryPoint(nonce_used_for_other_transaction(BuilderId, low_u64(u.nonce))) >>
      [] OTHER -> <<>>

UpdateMetrics(m, u) ==
    CASE u.kind = "Mined" -> Inc(m, "bundle_txns_success")
      [] u.kind = "LatestTxDropped" -> Inc(m, "bundle_txns_dropped")
      [] u.kind = "NonceUsedForOtherTx" -> Inc(m, "bundle_txns_nonce_used")
      [] OTHER -> m

\* A Success that reports the attempt the sequence is at instead of the
\* attempt of the mined transaction.
SuccessOf_current(u, count) == Success(u.block_number, count, u.tx_hash)

\* Ok(SendBundleResult::Success { block_number, attempt_number, tx_hash })
SuccessOf(u, count) == Success(u.block_number, u.attempt_number, u.tx_hash)

\* A fee bump that keeps the floor of the attempt that just ended.
NextRequiredFees_stale(required, current) == required

\* A fee bump computed from the floor that was asked for instead of the fees
\* of the transaction that was sent.
NextRequiredFees_of_floor(required, current) ==
    Some(GasFees_increase_by_percent(
             IF IsSome(required) THEN Unwrap(required) ELSE current,
             settings.replacement_fee_percent_increase))

\* required_fees = Some(current_fees.increase_by_percent(..))
NextRequiredFees(required, current) ==
    Some(GasFees_increase_by_percent(current,
                                     settings.replacement_fee_percent_increase))

\* A range of attempts with one attempt too many.
HasNextAttempt_inclusive(count) == count <= settings.max_fee_increases

\* A range of attempts that never ends.
HasNextAttempt_unbounded(count) == TRUE

\* for fee_increase_count in 0..=self.settings.max_fee_increases
HasNextAttempt(count) == count < settings.max_fee_increases

\* the code from the update to the next await or to the sequence's return;
\* before is what the step emitted before the update
Classify(u, before) ==
    /\ update' = Some(u)
    /\ bundle_tx' = None
    /\ current_fees' = None
    /\ events' = before \o UpdateEvents(u)
    /\ in_flight' = Resolve(in_flight, u)
    /\ CASE UpdateOutcome(u) = "success" ->
              /\ metrics' = UpdateMetrics(metrics, u)
              /\ result' = Some(SuccessOf(u, fee_increase_count))
              /\ pc' = "seq_return"
              /\ UNCHANGED << required_fees, fee_increase_count >>
         [] UpdateOutcome(u) = "bail" ->
              /\ metrics' = UpdateMetrics(metrics, u)
              /\ ReturnError("nonce used by external transaction")
              /\ UNCHANGED << required_fees, fee_increase_count >>
         [] OTHER ->
              /\ required_fees' =
                     NextRequiredFees(required_fees, Unwrap(current_fees))
              /\ IF HasNextAttempt(fee_increase_count)
                 THEN /\ metrics' = Inc(UpdateMetrics(metrics, u),
                                        "bundle_fee_increases")
                      /\ fee_increase_count' = fee_increase_count + 1
                      /\ pc' = "make_bundle"
                      /\ result' = None
                 ELSE /\ metrics' = Inc(Inc(UpdateMetrics(metrics, u),
                                            "bundle_fee_increases"),
                                        "bundle_txns_abandoned")
                      /\ result' = Some(StalledAtMaxFeeIncreases)
                      /\ pc' = "seq_return"
                      /\ UNCHANGED fee_increase_count

\* A sender that emits formed_bundle only once the update is known, and so
\* not before it waits.
TxHashEvents_late(tx_hash) == <<>>

\* SendResult::TxHash(tx_hash) => self.emit(BuilderEvent::formed_bundle(..,
\* Some(BundleTxDetails { tx_hash, tx, op_hashes }), ..))
TxHashEvents(tx_hash) ==
    << WithEntryPoint(formed_bundle(BuilderId,
           Some([tx_hash |-> tx_hash,
                 tx |-> Unwrap(bundle_tx).tx,
                 op_hashes |-> Unwrap(bundle_tx).op_hashes]),
           low_u64(nonce), fee_increase_count, required_fees)) >>

\* A sender that goes on to its next attempt without waiting for the update
\* of the transaction it got a hash for.
AwaitAfterTxHash_skipped == "make_bundle"

\* SendResult::TxHash(tx_hash) => { ..; wait_for_update().await? }: the await
\* the sequence is suspended at after it got a hash
AwaitAfterTxHash == "wait_update"

\* self.transaction_tracker.send_transaction(tx.clone(), &expected_storage)
\* returns
SendTransactionReturns ==
    /\ pc = "send"
    /\ \E r \in SendResults :
           IF ~r.ok
           THEN /\ ReturnError(r.error)
                /\ bundle_tx' = None
                /\ current_fees' = None
                /\ events' = <<>>
                /\ UNCHANGED << required_fees, fee_increase_count, update,
                                metrics, in_flight, awaited, formed_hashes >>
           ELSE IF r.value.kind = "TrackerUpdate"
           THEN /\ Classify(r.value.update, <<>>)
                /\ UNCHANGED << awaited, formed_hashes >>
           ELSE /\ events' = TxHashEvents(r.value.tx_hash)
                /\ formed_hashes' =
                       formed_hashes \cup
                           { events'[i].event.tx_details[1].tx_hash :
                                 i \in 1..Len(events') }
                /\ in_flight' = in_flight + 1
                /\ awaited' = awaited + 1
                /\ pc' = AwaitAfterTxHash
                /\ UNCHANGED << required_fees, fee_increase_count, update,
                                metrics, result, bundle_tx, current_fees >>
    /\ UNCHANGED << settings, estimation, caller_vars, last_block_number,
                    send_bundle_response, nonce, initial_op_count, bundle,
                    remove_ops, remove_entities, submitted_fees,
                    first_op_count, at_start >>

\* self.transaction_tracker.wait_for_update() returns
WaitForUpdateReturns ==
    /\ pc = "wait_update"
    /\ awaited' = awaited - 1
    /\ \E r \in WaitResults :
           IF ~r.ok
           THEN /\ ReturnError(r.error)
                /\ bundle_tx' = None
                /\ current_fees' = None
                /\ events' = <<>>
                /\ UNCHANGED << required_fees, fee_increase_count, update,
                                metrics, in_flight >>
           ELSE Classify(r.value, <<>>)
    /\ UNCHANGED << settings, estimation, formed_hashes, caller_vars, last_block_number,
                    send_bundle_response, nonce, initial_op_count, bundle,
                    remove_ops, remove_entities, submitted_fees,
                    first_op_count, at_start >>

(***************************************************************************)
(* send_bundles_in_loop: the end of an iteration.                          *)
(***************************************************************************)
\* match &result { ... Error => increment_bundle_txns_failed } and the reply
\* to the manual caller, whose receiver may be gone
EndIteration ==
    /\ pc = "seq_return"
    /\ metrics' = IF Unwrap(result).kind = "Error"
                  THEN Inc(metrics, "bundle_txns_failed") ELSE metrics
    /\ IF IsSome(send_bundle_response)
       THEN \E gone \in BOOLEAN :
                IF gone
                THEN /\ discarded' = discarded \cup {Unwrap(send_bundle_response)}
                     /\ UNCHANGED << reply_count, delivered >>
                ELSE /\ reply_count' = [reply_count EXCEPT
                            ![Unwrap(send_bundle_response)] = @ + 1]
                     /\ delivered' = Some([request |-> Unwrap(send_bundle_response),
                                           result |-> Unwrap(result)])
                     /\ UNCHANGED discarded
       ELSE UNCHANGED << reply_count, discarded, delivered >>
    /\ send_bundle_response' = None
    /\ pc' = "loop_top"
    \* the locals of the sequence go out of scope
    /\ nonce' = U256(0, 0)
    /\ required_fees' = None
    /\ initial_op_count' = None
    /\ fee_increase_count' = 0
    /\ bundle' = None
    /\ remove_ops' = IdleFuture
    /\ remove_entities' = IdleFuture
    /\ bundle_tx' = None
    /\ current_fees' = None
    /\ update' = None
    /\ events' = <<>>
    /\ submitted_fees' = <<>>
    /\ in_flight' = 0
    /\ awaited' = 0
    /\ first_op_count' = None
    /\ at_start' = metrics'
    /\ UNCHANGED << settings, estimation, formed_hashes, requests_sent, send_bundle_receiver,
                    last_block_number, result >>

Next ==
    \/ CallerSendsRequest
    \/ ReadMode
    \/ SelectRecv
    \/ SelectTimeout
    \/ WaitForNewBlock
    \/ CheckForUpdate
    \/ StartSequence
    \/ MakeBundleReturns
    \/ RemoveOpsReturns
    \/ RemoveEntitiesReturns
    \/ AfterJoin
    \/ SendTransactionReturns
    \/ WaitForUpdateReturns
    \/ EndIteration

Spec == Init /\ [][Next]_vars

SpecEscalation == InitEscalation /\ [][Next]_vars

(***************************************************************************)
(* Properties.                                                             *)
(***************************************************************************)
\* the awaits inside send_bundle_with_increasing_gas_fees_inner, and its
\* return
InSequence == pc \in {"make_bundle", "join", "send", "wait_update", "seq_return"}

\* the step in which the sequence obtains the update of an attempt, from
\* send_transaction or from wait_for_update
ObtainsUpdate(kind) ==
    /\ pc \in {"send", "wait_update"}
    /\ IsSome(update')
    /\ Unwrap(update').kind = kind

\* the step in which get_bundle_tx returns after join!
LeavesJoin == pc = "join" /\ pc' # "join"

\* C1: in one call of send_bundle_with_increasing_gas_fees with
\* max_fee_increases = K, send_transaction is called at most K + 1 times,
\* whatever the proposer and the tracker return.
C1_SendCallsBounded ==
    Len(submitted_fees) <= settings.max_fee_increases + 1

\* C1 happens: a sequence with K = 2 has called send_transaction 3 times.
C1_Witness ==
    /\ settings.max_fee_increases = 2
    /\ Len(submitted_fees) = 3
    /\ pc = "send"

\* C2 as stated: at most one submission is outstanding (submitted and not
\* reported mined, dropped or nonce-used) at every point.
C2_AtMostOneOutstanding == in_flight <= 1

\* C2 amended: the loop waits for the update of at most one submission at a
\* time and calls send_transaction only when it waits for none; a submission
\* reported as still pending stays outstanding while its replacement is
\* submitted, so up to max_fee_increases + 1 submissions of one sequence are
\* outstanding.
C2_OneAwaitedAtATime ==
    /\ awaited <= 1
    /\ (pc = "send" => awaited = 0)
    /\ (awaited = 1 => pc = "wait_update")
    /\ in_flight <= settings.max_fee_increases + 1
    /\ in_flight <= Len(submitted_fees)

\* C2 happens: the replacement of a transaction that is still pending has
\* been submitted and the loop waits for its update.
C2_Witness ==
    /\ pc = "wait_update"
    /\ awaited = 1
    /\ in_flight = 2
    /\ fee_increase_count = 1

\* C3: within one sequence, each submitted transaction's max_fee_per_gas and
\* max_priority_fee_per_gas are at least those of the transaction submitted
\* before it, and at least (100 + replacement_fee_percent_increase)/100
\* times them.
C3_FeesEscalate ==
    \A i \in 1..(Len(submitted_fees) - 1) :
        LET earlier == submitted_fees[i]
            later == submitted_fees[i + 1]
            p == settings.replacement_fee_percent_increase
        IN  /\ later.max_fee_per_gas >= earlier.max_fee_per_gas
            /\ later.max_priority_fee_per_gas >= earlier.max_priority_fee_per_gas
            /\ later.max_fee_per_gas * 100 >= earlier.max_fee_per_gas * (100 + p)
            /\ later.max_priority_fee_per_gas * 100
                   >= earlier.max_priority_fee_per_gas * (100 + p)

\* C3 happens: three transactions were submitted, the second at exactly the
\* rounded-up floor of the first, the third above its floor.
C3_Witness ==
    /\ Len(submitted_fees) = 3
    /\ submitted_fees[1] = BaseFees
    /\ submitted_fees[2] = GasFees(11, 2)
    /\ submitted_fees[3].max_fee_per_gas > 13

\* C4 as stated: in every reachable state bundle_txns_sent is at least
\* bundle_txns_success + bundle_txns_dropped + bundle_txns_nonce_used.
C4_SentCoversOutcomes ==
    metrics.bundle_txns_sent >=
        metrics.bundle_txns_success + metrics.bundle_txns_dropped
            + metrics.bundle_txns_nonce_used

\* C4 amended: the inequality holds of what one escalation sequence adds to
\* the counters; the passive poll adds to bundle_txns_success,
\* bundle_txns_dropped and bundle_txns_nonce_used without any transaction
\* having been counted as sent.
C4_SequenceSentCoversOutcomes ==
    InSequence =>
        metrics.bundle_txns_sent - at_start.bundle_txns_sent >=
            (metrics.bundle_txns_success - at_start.bundle_txns_success)
            + (metrics.bundle_txns_dropped - at_start.bundle_txns_dropped)
            + (metrics.bundle_txns_nonce_used - at_start.bundle_txns_nonce_used)

\* C4 happens: the poll reported an outcome when nothing was sent, and the
\* sequence after it sent two transactions, one dropped and one mined.
C4_Witness ==
    /\ pc = "seq_return"
    /\ at_start.bundle_txns_sent = 0
    /\ at_start.bundle_txns_success + at_start.bundle_txns_dropped
           + at_start.bundle_txns_nonce_used = 1
    /\ metrics.bundle_txns_sent = 2
    /\ metrics.bundle_txns_dropped - at_start.bundle_txns_dropped = 1
    /\ metrics.bundle_txns_success - at_start.bundle_txns_success = 1

\* C5: whenever the proposer returned a bundle, remove_ops and
\* remove_entities are invoked with exactly the bundle's rejected_ops and
\* rejected_entities, and both have completed when get_bundle_tx goes on to
\* test whether the bundle is empty, so before any empty-bundle event.
C5_RemovalsPrecedeEmptyTest ==
    [][ /\ pc' = "join" =>
              /\ remove_ops'.state # "idle"
              /\ remove_entities'.state # "idle"
              /\ remove_ops'.request =
                     Some([entry_point |-> EntryPointAddress,
                           hashes |-> [i \in 1..Len(Unwrap(bundle').rejected_ops) |->
                                           op_hash(Unwrap(bundle').rejected_ops[i])]])
              /\ remove_entities'.request =
                     Some([entry_point |-> EntryPointAddress,
                           entities |-> [i \in 1..Len(Unwrap(bundle').rejected_entities) |->
                                           PoolEntity(Unwrap(bundle').rejected_entities[i])]])
        /\ LeavesJoin =>
              /\ remove_ops.state \in {"ok", "failed"}
              /\ remove_entities.state \in {"ok", "failed"}
        /\ (events' # <<>> /\ events'[1].event.kind = "formed_bundle"
                /\ events'[1].event.tx_details = None) => LeavesJoin
      ]_vars

\* C5 happens: an empty bundle with rejected ops and a rejected entity, both
\* removals completed.
C5_Witness ==
    /\ pc = "join"
    /\ Bundle_is_empty(Unwrap(bundle))
    /\ Unwrap(bundle).rejected_ops = <<4, 3>>
    /\ Unwrap(bundle).rejected_entities = <<PaymasterA>>
    /\ remove_ops.state = "ok"
    /\ remove_entities.state = "failed"

\* C6: a failure of remove_ops or remove_entities does not fail
\* get_bundle_tx: what it returns (None or the BundleTx) is a function of
\* the proposer's bundle and the nonce alone, and the sequence goes on as if
\* the removals had succeeded.
C6_RemovalFailureIgnored ==
    [][ LeavesJoin =>
            LET b == Unwrap(bundle) IN
            IF Flatten(b.ops_per_aggregator) = <<>>
            THEN /\ pc' = "seq_return"
                 /\ bundle_tx' = None
                 /\ Unwrap(result').kind \in {"NoOperationsInitially",
                                              "NoOperationsAfterFeeIncreases"}
            ELSE /\ pc' = "send"
                 /\ result' = None
                 /\ bundle_tx' =
                        Some([tx |-> [to |-> EntryPointAddress,
                                      data |-> [ops_per_aggregator |-> b.ops_per_aggregator,
                                                beneficiary |-> Beneficiary],
                                      gas |-> (b.gas_estimate * 110 + 99) \div 100,
                                      max_fee_per_gas |-> b.gas_fees.max_fee_per_gas,
                                      max_priority_fee_per_gas |->
                                          b.gas_fees.max_priority_fee_per_gas,
                                      nonce |-> Some(nonce)],
                              expected_storage |-> b.expected_storage,
                              op_hashes |-> [i \in 1..Len(Flatten(b.ops_per_aggregator)) |->
                                                op_hash(Flatten(b.ops_per_aggregator)[i])]])
      ]_vars

\* C6 happens: both removals failed and the transaction of the bundle is
\* about to be sent.
C6_Witness ==
    /\ pc = "join"
    /\ ~Bundle_is_empty(Unwrap(bundle))
    /\ remove_ops.state = "failed"
    /\ remove_entities.state = "failed"

\* C7: when the update of an attempt is Mined, obtained from
\* send_transaction or from wait_for_update, the sequence emits
\* transaction_mined, increments bundle_txns_success once, calls
\* send_transaction no more and returns Success with exactly the update's
\* block number, attempt number and tx_hash.
C7_MinedReturnsSuccess ==
    [][ ObtainsUpdate("Mined") =>
            LET u == Unwrap(update') IN
            /\ events' = << [entry_point |-> EntryPointAddress,
                             event |-> transaction_mined(BuilderId, u.tx_hash,
                                                         u.nonce.low, u.block_number)] >>
            /\ metrics' = [metrics EXCEPT !.bundle_txns_success = @ + 1]
            /\ submitted_fees' = submitted_fees
            /\ pc' = "seq_return"
            /\ result' = Some([kind |-> "Success", block_number |-> u.block_number,
                               attempt_number |-> u.attempt_number,
                               tx_hash |-> u.tx_hash])
      ]_vars

\* C7 happens: the sequence returned on a Mined update whose attempt is not
\* the attempt the sequence was at.
C7_Witness ==
    /\ pc = "seq_return"
    /\ IsSome(update)
    /\ Unwrap(update).kind = "Mined"
    /\ Unwrap(update).attempt_number # fee_increase_count
    /\ Unwrap(result).kind = "Success"

\* C8: an empty bundle at attempt 0 gives NoOperationsInitially;
\* send_transaction is not called in the sequence, bundle_txns_sent and
\* bundle_txns_abandoned are not incremented, and a formed_bundle event
\* without transaction details is emitted.
C8_NoOperationsInitially ==
    [][ (LeavesJoin /\ Bundle_is_empty(Unwrap(bundle)) /\ fee_increase_count = 0) =>
            /\ result' = Some(NoOperationsInitially)
            /\ pc' = "seq_return"
            /\ submitted_fees' = <<>>
            /\ metrics' = metrics
            /\ metrics'.bundle_txns_sent = at_start.bundle_txns_sent
            /\ metrics'.bundle_txns_abandoned = at_start.bundle_txns_abandoned
            /\ events' = << [entry_point |-> EntryPointAddress,
                             event |-> formed_bundle(BuilderId, None, nonce.low,
                                                     0, required_fees)] >>
      ]_vars

\* C8 happens: the sequence returned NoOperationsInitially after the
\* proposer's empty bundle.
C8_Witness ==
    /\ pc = "seq_return"
    /\ result = Some(NoOperationsInitially)
    /\ first_op_count = Some(0)
    /\ events # <<>>
    /\ submitted_fees = <<>>

\* C9: an empty bundle at attempt a >= 1 gives
\* NoOperationsAfterFeeIncreases with attempt_number a and the number of ops
\* of the bundle built at attempt 0 (not of a later attempt); a
\* formed_bundle event without transaction details is emitted and
\* bundle_txns_abandoned is incremented exactly once.
C9_NoOperationsAfterFeeIncreases ==
    [][ (LeavesJoin /\ Bundle_is_empty(Unwrap(bundle)) /\ fee_increase_count >= 1) =>
            /\ result' = Some(NoOperationsAfterFeeIncreases(Unwrap(first_op_count),
                                                            fee_increase_count))
            /\ pc' = "seq_return"
            /\ metrics' = [metrics EXCEPT !.bundle_txns_abandoned = @ + 1]
            /\ metrics'.bundle_txns_abandoned = at_start.bundle_txns_abandoned + 1
            /\ events' = << [entry_point |-> EntryPointAddress,
                             event |-> formed_bundle(BuilderId, None, nonce.low,
                                                     fee_increase_count,
                                                     required_fees)] >>
      ]_vars

\* C9 happens: attempt 0 built 3 ops, attempt 1 built 1 op, attempt 2 built
\* none, and the result reports 3.
C9_Witness ==
    /\ pc = "seq_return"
    /\ fee_increase_count = 2
    /\ first_op_count = Some(3)
    /\ Len(submitted_fees) = 2
    /\ submitted_fees[2].max_fee_per_gas = submitted_fees[1].max_fee_per_gas
                                              + ((submitted_fees[1].max_fee_per_gas + 9) \div 10)
    /\ result = Some(NoOperationsAfterFeeIncreases(3, 2))

\* C10: when the update of an attempt is NonceUsedForOtherTx, the sequence
\* emits nonce_used_for_other_transaction(builder_id, nonce), increments
\* bundle_txns_nonce_used once, calls neither the proposer nor
\* send_transaction again, and returns an Error; the outer loop then goes on
\* to its next iteration.
C10_NonceUsedAborts ==
    [][ /\ ObtainsUpdate("NonceUsedForOtherTx") =>
              LET u == Unwrap(update') IN
              /\ events' = << [entry_point |-> EntryPointAddress,
                               event |-> nonce_used_for_other_transaction(
                                             BuilderId, u.nonce.low)] >>
              /\ metrics' = [metrics EXCEPT !.bundle_txns_nonce_used = @ + 1]
              /\ submitted_fees' = submitted_fees
              /\ pc' = "seq_return"
              /\ Unwrap(result').kind = "Error"
        /\ (pc = "seq_return" /\ Unwrap(result).kind = "Error" /\ pc' # pc) =>
              /\ pc' = "loop_top"
              /\ metrics'.bundle_txns_failed = metrics.bundle_txns_failed + 1
      ]_vars

\* C10 happens: the sequence returned an Error on NonceUsedForOtherTx for a
\* nonce wider than 64 bits, at its second attempt.
C10_Witness ==
    /\ pc = "seq_return"
    /\ update = Some(NonceUsedForOtherTx(U256(6, 1)))
    /\ fee_increase_count = 1
    /\ Unwrap(result).kind = "Error"


\* C11: StalledAtMaxFeeIncreases is returned exactly when all
\* max_fee_increases + 1 attempts built a non-empty bundle, submitted it and
\* ended in StillPendingAfterWait or LatestTxDropped; bundle_txns_abandoned
\* is then incremented exactly once and neither Success nor Error results.
C11_StalledExactly ==
    [][ /\ (ObtainsUpdate("StillPendingAfterWait") \/ ObtainsUpdate("LatestTxDropped")) =>
              IF fee_increase_count = settings.max_fee_increases
              THEN /\ pc' = "seq_return"
                   /\ result' = Some([kind |-> "StalledAtMaxFeeIncreases"])
                   /\ metrics'.bundle_txns_abandoned =
                          metrics.bundle_txns_abandoned + 1
              ELSE /\ pc' = "make_bundle"
                   /\ result' = None
                   /\ metrics'.bundle_txns_abandoned = metrics.bundle_txns_abandoned
        /\ (pc' = "seq_return" /\ result' = Some([kind |-> "StalledAtMaxFeeIncreases"])) =>
              /\ Len(submitted_fees') = settings.max_fee_increases + 1
              /\ fee_increase_count' = settings.max_fee_increases
              /\ metrics'.bundle_fee_increases - at_start'.bundle_fee_increases
                     = settings.max_fee_increases + 1
              /\ metrics'.bundle_txns_abandoned = at_start'.bundle_txns_abandoned + 1
              /\ metrics'.bundle_txns_success = at_start'.bundle_txns_success
              /\ metrics'.bundle_txns_nonce_used = at_start'.bundle_txns_nonce_used
              /\ IsSome(update')
              /\ Unwrap(update').kind \in {"StillPendingAfterWait", "LatestTxDropped"}
      ]_vars

\* C11 happens: with one fee increase allowed, the first transaction stayed
\* pending, its replacement was dropped and the sequence stalled.
C11_Witness ==
    /\ pc = "seq_return"
    /\ result = Some(StalledAtMaxFeeIncreases)
    /\ settings.max_fee_increases = 1
    /\ Len(submitted_fees) = 2
    /\ metrics.bundle_txns_dropped = at_start.bundle_txns_dropped + 1
    /\ Unwrap(update).kind = "LatestTxDropped"


\* C12: once send_transaction has returned a transaction hash for an
\* attempt, the sequence neither returns nor starts another attempt until
\* wait_for_update has returned an update for it or an error of the tracker
\* has become the sequence's result.
C12_WaitsAfterTxHash ==
    [][ /\ (/\ pc = "send"
            /\ events' # <<>>
            /\ events'[1].event.kind = "formed_bundle"
            /\ events'[1].event.tx_details # <<>>) =>
              /\ pc' = "wait_update"
              /\ awaited' = 1
              /\ result' = None
              /\ fee_increase_count' = fee_increase_count
        /\ (pc = "wait_update" /\ pc' # "wait_update") =>
              /\ awaited' = 0
              /\ \/ IsSome(update')
                 \/ /\ pc' = "seq_return"
                    /\ result' = Some([kind |-> "Error", error |-> "tracker error"])
        /\ (pc # "wait_update" /\ pc' = "wait_update") => pc = "send"
      ]_vars

\* C12 happens: a hash was returned for the second attempt and
\* wait_for_update failed; the error is the sequence's result.
C12_Witness ==
    /\ pc = "seq_return"
    /\ fee_increase_count = 1
    /\ in_flight = 2
    /\ update = None
    /\ result = Some(Error("tracker error"))


\* C13 as stated: a transaction_mined, latest_transaction_dropped or
\* nonce_used_for_other_transaction event is emitted only after a
\* formed_bundle event with the details of the transaction it concerns,
\* also for the updates send_transaction returns and the poll finds.
C13_OutcomeAfterFormed ==
    \A i \in 1..Len(events) :
        LET e == events[i].event IN
        /\ e.kind = "transaction_mined" => e.tx_hash \in formed_hashes
        /\ e.kind \in {"latest_transaction_dropped",
                       "nonce_used_for_other_transaction"} => formed_hashes # {}

\* C13 amended: the formed_bundle event with the details of a submitted
\* transaction is emitted as soon as send_transaction returned its hash,
\* before the loop waits, so every event emitted for an update from
\* wait_for_update follows the formed_bundle event of the awaited
\* transaction.  For an update that send_transaction returns itself, no
\* formed_bundle event is emitted for the attempt's transaction.
C13_FormedBeforeWait ==
    [][ /\ pc' = "wait_update" =>
              /\ Len(events') = 1
              /\ events'[1].event.kind = "formed_bundle"
              /\ events'[1].event.tx_details # <<>>
              /\ events'[1].event.tx_details[1].tx = Unwrap(bundle_tx').tx
              /\ events'[1].event.tx_details[1].tx_hash \in formed_hashes'
        /\ (pc = "wait_update" /\ pc' # "wait_update") =>
              /\ formed_hashes # {}
              /\ formed_hashes' = formed_hashes
              /\ \A i \in 1..Len(events') : events'[i].event.kind # "formed_bundle"
        /\ (pc = "send" /\ IsSome(update')) =>
              /\ formed_hashes' = formed_hashes
              /\ \A i \in 1..Len(events') : events'[i].event.kind # "formed_bundle"
      ]_vars

\* C13 happens: the only transaction sent so far got its hash, its
\* formed_bundle event was emitted, and wait_for_update reported it mined.
C13_Witness ==
    /\ pc = "seq_return"
    /\ metrics.bundle_txns_sent = 1
    /\ fee_increase_count = 0
    /\ formed_hashes = {"h1"}
    /\ events # <<>>
    /\ events[1].event.kind = "transaction_mined"
    /\ events[1].event.tx_hash = "h1"


\* C14: the op_hashes of every formed_bundle event with transaction details
\* are, element for element and in the same order, the hashes
\* op_hash(entry_point, chain_id) of the ops the entry point was asked to
\* include in that transaction.
C14_OpHashesInOrder ==
    \A i \in 1..Len(events) :
        LET e == events[i].event IN
        (e.kind = "formed_bundle" /\ e.tx_details # <<>>) =>
            LET d == e.tx_details[1]
                ops == Flatten(d.tx.data.ops_per_aggregator)
            IN  /\ Len(d.op_hashes) = Len(ops)
                /\ \A k \in 1..Len(ops) :
                       d.op_hashes[k] = [op |-> ops[k],
                                         entry_point |-> EntryPointAddress,
                                         chain_id |-> ChainId]

\* C14 happens: a formed_bundle event for a transaction of three ops in two
\* aggregator groups, whose order is not the order of their numbers.
C14_Witness ==
    /\ pc = "wait_update"
    /\ events # <<>>
    /\ events[1].event.kind = "formed_bundle"
    /\ events[1].event.tx_details # <<>>
    /\ events[1].event.tx_details[1].tx.data.ops_per_aggregator = << <<3>>, <<1, 2>> >>
    /\ Len(events[1].event.tx_details[1].op_hashes) = 3
    /\ events[1].event.tx_details[1].op_hashes[1].op = 3


\* C15: for every non-empty bundle the gas passed to
\* get_send_bundle_transaction, the envelope's gas, is
\* ceil(bundle.gas_estimate * 110 / 100).
C15_GasOverhead ==
    [][ (LeavesJoin /\ Flatten(Unwrap(bundle).ops_per_aggregator) # <<>>) =>
            LET gas == Unwrap(bundle_tx').tx.gas
                estimate == Unwrap(bundle).gas_estimate
            IN  /\ gas * 100 >= estimate * 110
                /\ (gas - 1) * 100 < estimate * 110
      ]_vars

\* C15 happens: an estimate of 101, whose tenth is not whole, gives a gas of
\* 112.
C15_Witness ==
    /\ pc = "send"
    /\ Unwrap(bundle_tx).tx.data.ops_per_aggregator = << <<3>>, <<1, 2>> >>
    /\ Unwrap(bundle_tx).tx.gas = 112


\* C16: in manual mode every SendBundleRequest the loop received is answered
\* at most once, with the result of the sequence run in the iteration that
\* received it; when the requester is gone the result is discarded and the
\* loop goes on; no result is delivered to a request received in another
\* iteration.
C16_ManualReply ==
    [][ /\ \A r \in 1..MaxRequests :
               /\ reply_count'[r] <= 1
               /\ r \in discarded' => reply_count'[r] = 0
        \* a responder is held only from the receive to the end of the same
        \* iteration
        /\ IsSome(send_bundle_response') =>
               pc' \notin {"loop_top", "select"}
        /\ (pc # "select" /\ send_bundle_response' # send_bundle_response) =>
               send_bundle_response' = <<>>
        \* the reply is the result of this iteration's sequence
        /\ (reply_count' # reply_count \/ discarded' # discarded) =>
               /\ pc = "seq_return"
               /\ pc' = "loop_top"
               /\ IsSome(send_bundle_response)
               /\ LET r == send_bundle_response[1] IN
                  \/ /\ reply_count' = [reply_count EXCEPT ![r] = @ + 1]
                     /\ delivered' = << [request |-> r, result |-> result[1]] >>
                     /\ discarded' = discarded
                  \/ /\ discarded' = discarded \cup {r}
                     /\ reply_count' = reply_count
                     /\ delivered' = delivered
        /\ (pc = "seq_return" /\ pc' = "loop_top" /\ IsSome(send_bundle_response)) =>
               (reply_count' # reply_count \/ discarded' # discarded)
      ]_vars

\* C16 happens: the request received in the second iteration was answered
\* with that iteration's result, after a first iteration without a request.
C16_Witness ==
    /\ pc = "loop_top"
    /\ last_block_number = 2
    /\ reply_count[1] = 1
    /\ metrics.bundle_txns_sent = 2
    /\ delivered = Some([request |-> 1, result |-> StalledAtMaxFeeIncreases])


\* C17: when manual_bundling_mode is read as true, the iteration starts no
\* block wait, poll or sequence unless a SendBundleRequest was received, and
\* a timeout only leads to the mode being read again; when it is read as
\* false, the iteration runs exactly one sequence, for exactly one newly
\* observed block number strictly greater than the last one observed.
C17_ManualAndAutomatic ==
    [][ /\ (pc = "loop_top" /\ pc' # pc) =>
              /\ pc' \in {"select", "wait_block"}
              /\ send_bundle_response' = <<>>
        /\ (pc = "select" /\ pc' # pc) =>
              \/ /\ pc' = "wait_block"
                 /\ send_bundle_receiver # <<>>
                 /\ send_bundle_response' = << send_bundle_receiver[1] >>
              \/ /\ pc' = "loop_top"
                 /\ send_bundle_response' = <<>>
                 /\ send_bundle_receiver' = send_bundle_receiver
                 /\ last_block_number' = last_block_number
                 /\ metrics' = metrics
                 /\ events' = <<>>
        /\ pc' = "wait_block" => pc \in {"loop_top", "select", "wait_block"}
        /\ (pc = "wait_block" /\ pc' # pc) =>
              /\ pc' = "poll"
              /\ last_block_number' > last_block_number
        /\ last_block_number' # last_block_number => pc = "wait_block"
        /\ pc' = "poll" => pc \in {"wait_block", "poll"}
        /\ (pc = "poll" /\ pc' # pc) => pc' = "get_nonce"
        /\ pc' = "get_nonce" => pc \in {"poll", "get_nonce"}
        /\ (pc = "seq_return" /\ pc' # pc) => pc' = "loop_top"
      ]_vars

\* C17 happens: in automatic mode a second iteration starts its sequence for
\* block 2 after the sequence of the first iteration sent a transaction for
\* block 1.
C17_Witness ==
    /\ pc = "get_nonce"
    /\ last_block_number = 2
    /\ send_bundle_response = None
    /\ requests_sent = 0
    /\ metrics.bundle_txns_sent = 1


\* C18: the outer loop never returns: after every result of a sequence,
\* Error and StalledAtMaxFeeIncreases included, and after an error of the
\* poll, the loop goes on; every sequence is preceded in its iteration by
\* exactly one block wait followed by exactly one poll.
C18_LoopGoesOn ==
    /\ [](/\ pc = "loop_top" => ENABLED ReadMode
          /\ pc = "seq_return" => ENABLED EndIteration
          /\ pc = "poll" => ENABLED CheckForUpdate
          /\ pc = "get_nonce" => ENABLED StartSequence)
    /\ [][ /\ pc' = "seq_return" =>
                 /\ IsSome(result')
                 /\ result'[1].kind \in {"Success", "NoOperationsInitially",
                                         "NoOperationsAfterFeeIncreases",
                                         "StalledAtMaxFeeIncreases", "Error"}
           /\ (pc = "seq_return" /\ pc' # pc) => pc' = "loop_top"
           /\ pc' \in {"loop_top", "select", "wait_block", "poll", "get_nonce",
                       "make_bundle", "join", "send", "wait_update", "seq_return"}
           \* the poll, failed or not, is followed by the sequence
           /\ (pc = "poll" /\ pc' # pc) => pc' = "get_nonce"
           \* one block wait, then one poll, then the sequence
           /\ (pc # "get_nonce" /\ pc' = "get_nonce") => pc = "poll"
           /\ (pc # "poll" /\ pc' = "poll") => pc = "wait_block"
           /\ (pc # "wait_block" /\ pc' = "wait_block") => pc \in {"loop_top", "select"}
           /\ (pc # "make_bundle" /\ pc' = "make_bundle") =>
                 pc \in {"get_nonce", "send", "wait_update"}
           /\ (pc = "get_nonce" /\ pc' # pc) => pc' \in {"make_bundle", "seq_return"}
         ]_vars

\* C18 happens: the loop is at the top of a further iteration after a
\* sequence that failed in the first iteration and one that stalled in the
\* second.
C18_Witness ==
    /\ pc = "loop_top"
    /\ last_block_number = 2
    /\ metrics.bundle_txns_failed = 1
    /\ metrics.bundle_txns_abandoned = 1
    /\ IsSome(result)
    /\ Unwrap(result).kind = "StalledAtMaxFeeIncreases"


\* C19: a failure of make_bundle, get_nonce_and_required_fees,
\* send_transaction or wait_for_update ends the sequence with
\* SendBundleResult::Error: no further proposer call or submission follows
\* in the sequence (and no pool removal after a proposer failure), and the
\* outer loop increments bundle_txns_failed exactly once for the sequence
\* and for no other result.
C19_FailuresEndSequence ==
    [][ \* the four awaits either go on with what they returned or end the
        \* sequence with the error
        /\ (pc = "get_nonce" /\ pc' # pc) =>
              \/ pc' = "make_bundle" /\ result' = <<>>
              \/ /\ pc' = "seq_return"
                 /\ result' = << [kind |-> "Error", error |-> "tracker error"] >>
        /\ (pc = "make_bundle" /\ pc' # pc) =>
              \/ pc' = "join" /\ IsSome(bundle') /\ result' = <<>>
              \/ /\ pc' = "seq_return"
                 /\ result' = << [kind |-> "Error",
                                  error |-> "proposer should create bundle for builder"] >>
                 /\ bundle' = <<>>
                 /\ remove_ops'.state = "idle"
                 /\ remove_entities'.state = "idle"
        /\ (pc \in {"send", "wait_update"} /\ pc' \notin {"send", "wait_update"}) =>
              \/ IsSome(update')
              \/ /\ pc' = "seq_return"
                 /\ update' = <<>>
                 /\ result' = << [kind |-> "Error", error |-> "tracker error"] >>
        \* an Error is the end of the sequence
        /\ (pc' = "seq_return" /\ result'[1].kind = "Error") =>
              /\ submitted_fees' = submitted_fees
              /\ metrics'.bundle_txns_failed = metrics.bundle_txns_failed
        /\ (pc = "seq_return" /\ pc' # pc) =>
              /\ pc' = "loop_top"
              /\ metrics'.bundle_txns_failed =
                     IF result[1].kind = "Error"
                     THEN metrics.bundle_txns_failed + 1
                     ELSE metrics.bundle_txns_failed
        /\ metrics'.bundle_txns_failed # metrics.bundle_txns_failed =>
              pc = "seq_return"
      ]_vars

\* C19 happens: the proposer failed at the second attempt, after one
\* transaction was sent, and the outer loop counted the sequence as failed.
C19_Witness ==
    /\ pc = "loop_top"
    /\ result = Some(Error("proposer should create bundle for builder"))
    /\ metrics.bundle_txns_failed = 1
    /\ metrics.bundle_txns_sent = 1
    /\ metrics.bundle_fee_increases = 1


(***************************************************************************)
(* The validation of the estimation settings: any settings, validated up   *)
(* to MaxValidations times; the bundle sender does not run.                *)
(***************************************************************************)
InitValidate ==
    /\ Start({0}, 0)
    /\ estimation \in [settings : EstimationSettings, answers : {<<>>}]

\* one call of validate(&self): the settings are borrowed, the answer is
\* returned
Validate ==
    /\ Len(estimation.answers) < MaxValidations
    /\ estimation' =
           [estimation EXCEPT !.answers =
                Append(@, Settings_validate(estimation.settings))]
    /\ UNCHANGED << settings, caller_vars, pc, last_block_number,
                    send_bundle_response, seq_locals, attempt_locals, update,
                    result, metrics, events, seq_record, formed_hashes >>

NextValidate == Validate

SpecValidate == InitValidate /\ [][NextValidate]_vars

\* C20: Settings.validate returns a reason exactly when
\* max_call_gas < MIN_CALL_GAS_LIMIT and nothing otherwise, whatever the
\* three other fields are; it does not change the settings, so a second
\* validation gives the same answer as the first.
C20_ValidateByCallGas ==
    /\ [](\A i \in 1..Len(estimation.answers) :
              /\ estimation.answers[i] =
                     IF estimation.settings.max_call_gas < MIN_CALL_GAS_LIMIT.low
                     THEN << "max_call_gas field cannot be lower than MIN_CALL_GAS_LIMIT" >>
                     ELSE <<>>
              /\ estimation.answers[i] = estimation.answers[1])
    /\ [][estimation'.settings = estimation.settings]_vars

\* C20 happens: settings whose max_call_gas is exactly the limit, and whose
\* other fields are all below it, were validated twice.
C20_Witness ==
    /\ Len(estimation.answers) = 2
    /\ estimation.settings.max_call_gas = 9100
    /\ estimation.settings.max_verification_gas = 0
    /\ estimation.settings.max_simulate_handle_ops_gas = 0
    /\ estimation.settings.validation_estimation_gas_fee = 0


\* C21: the passive tracker poll produces, for each kind of tracker update,
\* the same events and the same metric increments as the classification of
\* an update of that kind in the escalation sequence, and it calls neither
\* the proposer, nor the pool, nor send_transaction and leaves the required
\* fees alone.
C21_PollAsClassification ==
    [][ (pc = "poll" /\ pc' # pc) =>
            /\ \/ events' = <<>> /\ metrics' = metrics
               \/ \E u \in TrackerUpdates :
                      /\ events' = UpdateEvents(u)
                      /\ metrics' = UpdateMetrics(metrics, u)
            /\ required_fees' = required_fees
            /\ submitted_fees' = submitted_fees
            /\ in_flight' = in_flight
            /\ bundle' = bundle
            /\ remove_ops' = remove_ops
            /\ remove_entities' = remove_entities
            /\ bundle_tx' = bundle_tx
      ]_vars


\* C22: the fee floor the proposer is called with is the tracker's required
\* fees (possibly none) at attempt 0, and at attempt i+1 it is
\* increase_by_percent(current_fees_i, replacement_fee_percent_increase),
\* current_fees_i being the fees read from the envelope built at attempt i
\* and not the floor asked for at attempt i.
C22_FloorFromEnvelope ==
    [][ \* attempt 0: what get_nonce_and_required_fees returned with the nonce
        /\ (pc = "get_nonce" /\ pc' = "make_bundle") =>
              /\ fee_increase_count' = 0
              /\ << nonce', required_fees' >> \in
                     { << [low |-> 5, high |-> 0], <<>> >>,
                       << [low |-> 6, high |-> 0], << TrackerFloor >> >> }
        \* attempt i+1: the fees of the envelope of attempt i, raised
        /\ (pc \in {"send", "wait_update"} /\ pc' = "make_bundle") =>
              /\ fee_increase_count' = fee_increase_count + 1
              /\ required_fees' =
                     << GasFees_increase_by_percent(
                            [max_fee_per_gas |-> bundle_tx[1].tx.max_fee_per_gas,
                             max_priority_fee_per_gas |->
                                 bundle_tx[1].tx.max_priority_fee_per_gas],
                            settings.replacement_fee_percent_increase) >>
        \* the floor is not touched between the call of the proposer and
        \* the update of the attempt
        /\ (pc \in {"make_bundle", "join"} \/ pc' = "wait_update") =>
              required_fees' = required_fees
      ]_vars

\* C22 happens: the proposer is about to be called for attempt 1 with the
\* floor (17, 6), 10 percent above the fees (15, 5) of the envelope of
\* attempt 0, which exceeded the floor (12, 2) asked for at attempt 0 (10
\* percent above that floor would be (14, 3)).
C22_Witness ==
    /\ pc = "make_bundle"
    /\ fee_increase_count = 1
    /\ nonce = U256(6, 0)
    /\ submitted_fees = << GasFees(15, 5) >>
    /\ required_fees = Some(GasFees(17, 6))


\* C23: within one escalation sequence the nonce is read from the tracker
\* once, before the first attempt; every transaction built and submitted in
\* the sequence and every formed_bundle event of the sequence carries that
\* nonce, also after a LatestTxDropped or StillPendingAfterWait update; the
\* nonce is read again only at the start of the next iteration's sequence.
C23_OneNoncePerSequence ==
    [][ \* the nonce is assigned where the sequence starts and nowhere else
        \* before the sequence has returned
        /\ nonce' # nonce => pc \in {"get_nonce", "seq_return"}
        /\ (pc \in {"make_bundle", "join", "send", "wait_update"}) =>
              nonce' = nonce
        \* the transaction built, which is the one submitted
        /\ (pc = "join" /\ pc' = "send") =>
              /\ IsSome(bundle_tx')
              /\ bundle_tx'[1].tx.nonce = << nonce >>
        /\ pc \in {"send", "wait_update"} =>
              /\ IsSome(bundle_tx)
              /\ bundle_tx[1].tx.nonce = << nonce >>
        \* the events
        /\ \A i \in 1..Len(events') :
              events'[i].event.kind = "formed_bundle" =>
                  /\ pc \in {"join", "send"}
                  /\ events'[i].event.nonce = nonce.low
      ]_vars

\* C23 happens: attempt 0 ended with LatestTxDropped, and the transaction of
\* attempt 1 was built, submitted and announced by formed_bundle with the
\* nonce 6 read before attempt 0.
C23_Witness ==
    /\ pc = "wait_update"
    /\ fee_increase_count = 1
    /\ Len(submitted_fees) = 2
    /\ nonce = U256(6, 0)
    /\ metrics.bundle_txns_dropped = at_start.bundle_txns_dropped + 1
    /\ metrics.bundle_fee_increases = 1
    /\ bundle_tx[1].tx.nonce = Some(U256(6, 0))
    /\ Len(events) = 1
    /\ events[1].event.kind = "formed_bundle"
    /\ events[1].event.fee_increase_count = 1
    /\ events[1].event.nonce = 6

=============================================================================
